---- MODULE Spec2Model ----
(***************************************************************************)
(* A model of clize/util.py: the Formatter line buffer, its indentation    *)
(* scopes, and the column layout (_FormatterColumns) with its width        *)
(* allocation and row rendering.                                           *)
(*                                                                         *)
(* Python strings are sequences of one-character strings.  A width policy  *)
(* (an element of min_widths / max_widths) is a record: an int, a float    *)
(* n/d, or None.                                                           *)
(***************************************************************************)
EXTENDS Integers, Sequences, FiniteSets, TLC

VARIABLES
    max_width,   \* Formatter.max_width
    lines,       \* Formatter.lines: sequence of (indent, line) entries
    indent,      \* Formatter._indent
    num,         \* _FormatterColumns.num
    spacing,     \* _FormatterColumns.spacing
    align,       \* _FormatterColumns.align
    wrap,        \* _FormatterColumns.wrap
    min_widths,  \* _FormatterColumns.min_widths
    max_widths,  \* _FormatterColumns.max_widths
    rows,        \* _FormatterColumns.rows (each row is its tuple of cells)
    finished,    \* _FormatterColumns.finished
    widths,      \* _FormatterColumns.widths (meaningful when has_widths)
    has_widths,  \* the layout has its widths attribute: __exit__ assigned it
    scopes,      \* the with-blocks the caller is inside, innermost last
    exc,         \* the exception propagating through the caller, or "none"
    out          \* what the caller's latest call returned, when it was str()

vars == <<max_width, lines, indent, num, spacing, align, wrap, min_widths,
          max_widths, rows, finished, widths, has_widths, scopes, exc,
          out>>

-----------------------------------------------------------------------------
(* Python values *)

None == [k |-> "none", n |-> 0, d |-> 1]
PyInt(v) == [k |-> "int", n |-> v, d |-> 1]
\* A Python float is a binary fraction: PyFloat(m, e) is the double m / 2^e
\* (.25 is PyFloat(1, 2); .29 is no m / 2^e with a small m).  Its product
\* with an int is exact in floating point while |m * int| < 2^53, which every
\* product made here is.
PyFloat(m, e) == [k |-> "float", n |-> m, d |-> 2 ^ e]

\* int(x) of the float a / b, b a power of two: truncation toward zero.
Trunc(a, b) == IF a >= 0 THEN a \div b ELSE -((-a) \div b)

RECURSIVE Sum(_)
Sum(s) == IF s = <<>> THEN 0 ELSE Head(s) + Sum(Tail(s))

\* s[a:b] of Python for 0 <= a, with b clipped to len(s).
Slice(s, a, b) ==
    LET hi == IF b > Len(s) THEN Len(s) ELSE b
    IN  IF a >= hi THEN <<>> ELSE SubSeq(s, a + 1, hi)

\* ' ' * n
Spaces(n) == IF n <= 0 THEN <<>> ELSE [j \in 1..n |-> " "]

RECURSIVE Concat(_)
Concat(ss) == IF ss = <<>> THEN <<>> ELSE Head(ss) \o Concat(Tail(ss))

\* sep.join(parts)
RECURSIVE Join(_, _)
Join(sep, parts) ==
    IF parts = <<>> THEN <<>>
    ELSE IF Len(parts) = 1 THEN parts[1]
    ELSE parts[1] \o sep \o Join(sep, Tail(parts))

\* s.strip() == ''
IsBlank(s) == \A j \in 1..Len(s) : s[j] = " "

\* s.rstrip()
RECURSIVE RStrip(_)
RStrip(s) ==
    IF s = <<>> THEN s
    ELSE IF s[Len(s)] = " " THEN RStrip(SubSeq(s, 1, Len(s) - 1))
    ELSE s

\* sorted(s) for a sequence of integers
RECURSIVE Insert(_, _)
Insert(x, s) ==
    IF s = <<>> THEN <<x>>
    ELSE IF x <= Head(s) THEN <<x>> \o s
    ELSE <<Head(s)>> \o Insert(x, Tail(s))

RECURSIVE Sorted(_)
Sorted(s) == IF s = <<>> THEN <<>> ELSE Insert(Head(s), Sorted(Tail(s)))

-----------------------------------------------------------------------------
(* textwrap.wrap(text, width) with the default TextWrapper options, for     *)
(* text made of letters and blanks.                                         *)

\* The chunks of the text: maximal runs of blanks and of non-blanks.
RECURSIVE SplitChunks(_, _)
SplitChunks(s, cur) ==
    IF s = <<>> THEN (IF cur = <<>> THEN <<>> ELSE <<cur>>)
    ELSE IF cur = <<>> \/ ((cur[1] = " ") = (Head(s) = " "))
         THEN SplitChunks(Tail(s), Append(cur, Head(s)))
         ELSE <<cur>> \o SplitChunks(Tail(s), <<Head(s)>>)

\* How many leading chunks fit on a line that already holds curLen.
RECURSIVE Fit(_, _, _)
Fit(chunks, width, curLen) ==
    IF chunks = <<>> THEN 0
    ELSE IF curLen + Len(Head(chunks)) <= width
         THEN 1 + Fit(Tail(chunks), width, curLen + Len(Head(chunks)))
         ELSE 0

\* TextWrapper._wrap_chunks, for width > 0.
RECURSIVE WrapChunks(_, _, _)
WrapChunks(chunks, width, done) ==
    IF chunks = <<>> THEN done
    ELSE
      LET c0 == IF IsBlank(Head(chunks)) /\ done # <<>>
                THEN Tail(chunks) ELSE chunks
          k == Fit(c0, width, 0)
          cur1 == SubSeq(c0, 1, k)
          rest1 == SubSeq(c0, k + 1, Len(c0))
          curLen == Len(Concat(cur1))
          long == rest1 # <<>> /\ Len(rest1[1]) > width
          spaceLeft == width - curLen
          cur2 == IF long THEN Append(cur1, Slice(rest1[1], 0, spaceLeft))
                  ELSE cur1
          rest2 == IF long
                   THEN <<Slice(rest1[1], spaceLeft, Len(rest1[1]))>>
                        \o Tail(rest1)
                   ELSE rest1
          cur3 == IF cur2 # <<>> /\ IsBlank(cur2[Len(cur2)])
                  THEN SubSeq(cur2, 1, Len(cur2) - 1) ELSE cur2
          done2 == IF cur3 # <<>> THEN Append(done, Concat(cur3)) ELSE done
      IN  WrapChunks(rest2, width, done2)

\* textwrap.wrap(text, width); the caller checks width > 0 (ValueError).
Wrap(text, width) == WrapChunks(SplitChunks(text, <<>>), width, <<>>)

\* '{0:{1}{2}}'.format(line, a, width)
Format(line, a, width) ==
    LET pad == width - Len(line)
    IN  IF pad <= 0 THEN line
        ELSE IF a = ">" THEN Spaces(pad) \o line
        ELSE IF a = "^"
             THEN Spaces(pad \div 2) \o line \o Spaces(pad - pad \div 2)
        ELSE line \o Spaces(pad)

-----------------------------------------------------------------------------
(* Width allocation *)

\* bound(min, val, max): min and max are policies (an int or None).
Bound(min, val, max) ==
    IF min.k # "none" /\ val < min.n THEN min.n
    ELSE IF max.k # "none" /\ val > max.n THEN max.n
    ELSE val

\* list(process_widths(ws, mw))
process_widths(ws, mw) ==
    [j \in 1..Len(ws) |->
        IF ws[j].k = "float" THEN PyInt(Trunc(ws[j].n * mw, ws[j].d))
        ELSE ws[j]]

\* The while loop of compute_widths on a non-wrapping column, up to the
\* point where the list is empty: what is left of the sorted lengths.
RECURSIVE Discard(_, _)
Discard(maxlen, cap) ==
    IF maxlen # <<>> /\ maxlen[Len(maxlen)] > cap
    THEN Discard(SubSeq(maxlen, 1, Len(maxlen) - 1), cap)
    ELSE maxlen

\* What a step of compute_widths comes to: a TypeError, or a value.
Raised == [raises |-> TRUE, v |-> 0]
Value(x) == [raises |-> FALSE, v |-> x]

\* The cap of column i once `used` is taken: space_left lowered to
\* max_widths[i].  sum(min_widths[i+1:]) raises TypeError on a None.
ColumnCap(mw, used, mins, maxs, i) ==
    IF \E j \in (i + 1)..Len(mins) : mins[j].k = "none" THEN Raised
    ELSE Value(Bound(None,
                     mw - used - Sum([j \in 1..(Len(mins) - i) |-> mins[i + j].n]),
                     maxs[i]))

\* The width compute_widths yields for column i under the cap `cap`.  A
\* non-wrapping column whose lengths are all discarded gets min_widths[i] as
\* its only length; when that is None, bound compares None with the cap and
\* raises TypeError.
ColumnWidth(maxlen, wr, minw, cap) ==
    LET left == IF wr THEN maxlen ELSE Discard(maxlen, cap)
    IN  IF left = <<>>
        THEN (IF minw.k = "none" THEN Raised
              ELSE Value(Bound(minw, minw.n, PyInt(cap))))
        ELSE Value(Bound(minw, left[Len(left)], PyInt(cap)))

\* The for loop of compute_widths from column i on: the widths yielded, and
\* whether the loop ended in a TypeError.
RECURSIVE WidthsFrom(_, _, _, _, _, _, _)
WidthsFrom(i, used, mw, maxlens, wr, mins, maxs) ==
    IF i > Len(maxlens) THEN [raises |-> FALSE, ws |-> <<>>]
    ELSE LET cap == ColumnCap(mw, used, mins, maxs, i)
             width == ColumnWidth(maxlens[i], wr[i], mins[i], cap.v)
             rest == WidthsFrom(i + 1, used + width.v, mw, maxlens,
                                wr, mins, maxs)
         IN  IF cap.raises \/ width.raises THEN [raises |-> TRUE, ws |-> <<>>]
             ELSE [raises |-> rest.raises, ws |-> <<width.v>> \o rest.ws]

\* [sorted(len(s) for s in col) for col in zip(*rows)]
MaxLens(rs, n) ==
    IF rs = <<>> THEN <<>>
    ELSE [i \in 1..n |-> Sorted([r \in 1..Len(rs) |-> Len(rs[r][i])])]

\* The generator compute_widths run to its end, as list() does.
ComputeWidths(mw, n, sp, wr, minws, maxws, rs) ==
    LET used == Len(sp) * (n - 1)
        space_left == mw - used
    IN  WidthsFrom(1, used, mw, MaxLens(rs, n), wr,
                   process_widths(minws, space_left),
                   process_widths(maxws, space_left))

\* list(self.compute_widths()) raises TypeError.
compute_widths_raises(mw, n, sp, wr, minws, maxws, rs) ==
    ComputeWidths(mw, n, sp, wr, minws, maxws, rs).raises

\* list(self.compute_widths()), when it does not raise.
compute_widths(mw, n, sp, wr, minws, maxws, rs) ==
    ComputeWidths(mw, n, sp, wr, minws, maxws, rs).ws

-----------------------------------------------------------------------------
(* Row rendering *)

\* The width format_cell wraps cell i at.
CellWidth(i, cell, ws, wr, sp, n) ==
    IF wr[i] \/ Len(cell) <= ws[i] THEN ws[i]
    ELSE Sum(SubSeq(ws, i, Len(ws))) + Len(sp) * (n - i)

\* list(self.format_cell(i, cell)), for a width > 0.
format_cell(i, cell, ws, wr, sp, al, n) ==
    LET width == CellWidth(i, cell, ws, wr, sp, n)
        wrapped == Wrap(cell, width)
    IN  [p \in 1..Len(wrapped) |-> Format(wrapped[p], al[i], width)]

\* The body of match_lines from column i on; a missing sub-line is None.
RECURSIVE MatchFrom(_, _, _, _, _, _)
MatchFrom(i, cells, ret, ws, sp, n) ==
    IF i > Len(cells) THEN <<ret>>
    ELSE LET cell == IF cells[i].some THEN cells[i].s ELSE Spaces(ws[i])
             ret2 == Append(ret, cell)
         IN  IF Len(cell) > ws[i]
             THEN <<ret2>> \o
                  (IF i = n THEN <<>>
                   ELSE MatchFrom(i + 1, cells,
                            <<Spaces(Sum(SubSeq(ws, 1, i)) + Len(sp) * (i - 1))>>,
                            ws, sp, n))
             ELSE MatchFrom(i + 1, cells, ret2, ws, sp, n)

\* match_lines without its overflow test: one line for every position.
match_lines_one_line(cells, ws, sp, n) ==
    << [i \in 1..Len(cells) |->
           IF cells[i].some THEN cells[i].s ELSE Spaces(ws[i])] >>

\* list(self.match_lines(cells))
match_lines(cells, ws, sp, n) == MatchFrom(1, cells, <<>>, ws, sp, n)

\* max(len(w) for w in wcells), 0 when there is none
RECURSIVE MaxLen(_)
MaxLen(ss) ==
    IF ss = <<>> THEN 0
    ELSE LET m == MaxLen(Tail(ss))
         IN  IF Len(Head(ss)) > m THEN Len(Head(ss)) ELSE m

\* list(zip_longest(*wcells))
zip_longest(wcells) ==
    [p \in 1..MaxLen(wcells) |->
        [i \in 1..Len(wcells) |->
            IF p <= Len(wcells[i]) THEN [some |-> TRUE, s |-> wcells[i][p]]
            ELSE [some |-> FALSE, s |-> <<>>]]]

\* The strings a sequence of cell lists joins and strips to.
JoinLines(clines, sp) ==
    [j \in 1..Len(clines) |-> RStrip(Join(sp, clines[j]))]

\* list(self.format_cells(cells)), when no cell raises.
format_cells(cells, ws, wr, sp, al, n) ==
    LET wcells == [i \in 1..Len(cells) |->
                      format_cell(i, cells[i], ws, wr, sp, al, n)]
        zipped == zip_longest(wcells)
    IN  Concat([p \in 1..Len(zipped) |->
                   JoinLines(match_lines(zipped[p], ws, sp, n), sp)])

\* The exception the generator format_cell(i, cell) raises before its first
\* line, or "none": it reads wrap[i], then widths (missing until __exit__
\* assigns it, empty when __exit__ saw no row), textwrap refuses a width
\* below 1, and a wrapped line is formatted with align[i].
CellError(i, cell, has, ws, wr, sp, al, n) ==
    IF i > Len(wr) THEN "IndexError"
    ELSE IF ~has THEN "AttributeError"
    ELSE IF i > Len(ws) THEN "IndexError"
    ELSE IF CellWidth(i, cell, ws, wr, sp, n) <= 0 THEN "ValueError"
    ELSE IF i > Len(al) /\ Wrap(cell, CellWidth(i, cell, ws, wr, sp, n)) # <<>>
         THEN "IndexError"
    ELSE "none"

\* The exception list(format_cells(cells)) raises, or "none": that of the
\* first cell whose generator raises; a row without cells reads nothing.
RECURSIVE RowErrorFrom(_, _, _, _, _, _, _, _)
RowErrorFrom(i, cells, has, ws, wr, sp, al, n) ==
    IF i > Len(cells) THEN "none"
    ELSE LET err == CellError(i, cells[i], has, ws, wr, sp, al, n)
         IN  IF err # "none" THEN err
             ELSE RowErrorFrom(i + 1, cells, has, ws, wr, sp, al, n)

RowError(cells, has, ws, wr, sp, al, n) ==
    RowErrorFrom(1, cells, has, ws, wr, sp, al, n)

-----------------------------------------------------------------------------
(* Formatter *)

\* An element of Formatter.lines: a string, or a _FormatterRow (its index in rows).
StrEntry(ind, text) == [indent |-> ind, isRow |-> FALSE, text |-> text, row |-> 0]
RowEntry(ind, r) == [indent |-> ind, isRow |-> TRUE, text |-> <<>>, row |-> r]

\* `not line` for an entry's line: only the empty string is false.
Falsy(e) == ~e.isRow /\ e.text = <<>>

\* Formatter.get_width
get_width(ind) == max_width - indent - ind

\* append_raw storing the indent argument alone, without self._indent.
append_raw_absolute(ls, line, ind) == Append(ls, StrEntry(ind, line))

\* What append_raw(line, indent=ind) makes of a buffer.
append_raw(ls, line, ind) == Append(ls, StrEntry(indent + ind, line))

\* new_paragraph without its test of the last line.
new_paragraph_always(ls) == Append(ls, StrEntry(0, <<>>))

\* What new_paragraph makes of a buffer.
new_paragraph(ls) ==
    IF ls # <<>> /\ ~Falsy(ls[Len(ls)]) THEN Append(ls, StrEntry(0, <<>>))
    ELSE ls

\* The for loop of extend over the remaining (indent, line) items.
RECURSIVE ExtendRest(_, _)
ExtendRest(ls, items) ==
    IF items = <<>> THEN ls
    ELSE ExtendRest(append_raw(ls, Head(items).line, Head(items).indent),
                    Tail(items))

\* What extend(iterable) makes of a buffer, given the iterable's items.
extend(ls, items) ==
    IF items = <<>> THEN ls
    ELSE LET first == Head(items)
             ls1 == IF first.line = <<>> THEN new_paragraph(ls)
                    ELSE append_raw(ls, first.line, first.indent)
         IN  ExtendRest(ls1, Tail(items))

\* ((0, line) for line in iterable), for an iterable that is no Formatter
PlainItems(strs) == [j \in 1..Len(strs) |-> [indent |-> 0, line |-> strs[j]]]

\* The lines __str__ renders: the buffer without a trailing blank line.
StrLines(ls) ==
    IF ls # <<>> /\ Falsy(ls[Len(ls)]) THEN SubSeq(ls, 1, Len(ls) - 1) ELSE ls

\* list(self.convert_line(line)) for an entry, when it does not raise.
convert_line(e) ==
    IF e.isRow THEN format_cells(rows[e.row], widths, wrap, spacing, align, num)
    ELSE <<e.text>>

\* The exception convert_line raises for an entry, or "none".
EntryError(e) ==
    IF e.isRow THEN RowError(rows[e.row], has_widths, widths, wrap, spacing, align, num)
    ELSE "none"

\* The first exception met while rendering, or "none".
RECURSIVE FirstError(_)
FirstError(ls) ==
    IF ls = <<>> THEN "none"
    ELSE IF EntryError(Head(ls)) # "none" THEN EntryError(Head(ls))
    ELSE FirstError(Tail(ls))

\* The output lines of __str__, each with its indent.
RECURSIVE OutLines(_)
OutLines(ls) ==
    IF ls = <<>> THEN <<>>
    ELSE LET e == Head(ls)
             cl == convert_line(e)
         IN  [j \in 1..Len(cl) |-> Spaces(e.indent) \o cl[j]]
             \o OutLines(Tail(ls))

\* Formatter.__str__: the exception raised, or the text returned.
Str ==
    LET ls == StrLines(lines)
        err == FirstError(ls)
    IN  IF err # "none" THEN [err |-> err, text |-> <<>>]
        ELSE [err |-> "none", text |-> Join(<<"\n">>, OutLines(ls))]

-----------------------------------------------------------------------------
(* Bounds and the inputs the operations are tried on *)

MaxLines == 2      \* the buffer holds at most this many lines
MaxDepth == 2      \* at most this many nested with-blocks

\* Short literals, as sequences of characters
Ab == <<"a", "b">>
AbCd == <<"a", "b", " ", "c", "d">>

Texts == {AbCd}                      \* append(line)
RawLines == {<<>>, Ab}               \* append_raw(line)
ExtraIndents == {0}                  \* the indent argument of both
Amounts == {2}                       \* indent(amount)
CellTuples ==                        \* append(*cells)
    { <<Ab>>, <<AbCd>>, <<Ab, AbCd>>, <<AbCd, Ab>>, <<Ab, Ab, Ab>> }

\* The items of the iterables given to extend: a Formatter's (indent, line)
\* pairs, or plain strings (indent 0).
Item(ind, line) == [indent |-> ind, line |-> line]
FormatterSources ==
    { <<>>, <<Item(0, <<>>)>>, <<Item(2, Ab)>>,
      <<Item(0, <<>>), Item(2, Ab)>>, <<Item(2, Ab), Item(0, <<>>)>> }
PlainSources == { PlainItems(<<Ab>>), PlainItems(<<<<>>, <<>>>>) }
Sources == FormatterSources \cup PlainSources

NoOut == [err |-> "unset", text |-> <<>>]

-----------------------------------------------------------------------------
(* Construction *)

\* The arguments of Formatter.columns(...); <<>> stands for an argument
\* left to its default of None.
Config(n, sp, al, wr, mins, maxs) ==
    [num |-> n, spacing |-> sp, align |-> al, wrap |-> wr,
     min_widths |-> mins, max_widths |-> maxs]

DefaultSpacing == Spaces(3)

\* The arguments as _FormatterColumns.__init__ stores them: `x or default`.
\* The defaults of wrap and max_widths are a first element followed by
\* num - 1 others, so they have one element even when num <= 0.
Stored(c) ==
    [num |-> c.num,
     spacing |-> c.spacing,
     align |-> IF c.align # <<>> THEN c.align ELSE [i \in 1..c.num |-> "<"],
     wrap |-> IF c.wrap # <<>> THEN c.wrap
              ELSE <<FALSE>> \o [i \in 1..(c.num - 1) |-> TRUE],
     min_widths |-> IF c.min_widths # <<>> THEN c.min_widths
                    ELSE [i \in 1..c.num |-> PyInt(2)],
     max_widths |-> IF c.max_widths # <<>> THEN c.max_widths
                    ELSE <<PyFloat(1, 2)>> \o [i \in 1..(c.num - 1) |-> None]]

\* _FormatterColumns.__init__ on a fresh Formatter(max_width=mw).
Construct(mw, c) ==
    /\ max_width = mw
    /\ lines = <<>>
    /\ indent = 0
    /\ num = Stored(c).num
    /\ spacing = Stored(c).spacing
    /\ align = Stored(c).align
    /\ wrap = Stored(c).wrap
    /\ min_widths = Stored(c).min_widths
    /\ max_widths = Stored(c).max_widths
    /\ rows = <<>>
    /\ finished = FALSE
    /\ widths = <<>>
    /\ has_widths = FALSE
    /\ scopes = <<>>
    /\ exc = "none"
    /\ out = NoOut

MainWidths == {4}
MainConfigs ==
    { Config(n, Spaces(1), <<>>, <<>>, <<>>, <<>>) : n \in 1..2 }

Init == \E mw \in MainWidths, c \in MainConfigs : Construct(mw, c)

-----------------------------------------------------------------------------
(* Operations *)

layout == <<num, spacing, align, wrap, min_widths, max_widths>>

\* Formatter.append(line, indent=ind)
FormatterAppend(line, ind) ==
    /\ exc = "none"
    /\ IF get_width(ind) <= 0
       THEN /\ exc' = "ValueError"
            /\ lines' = lines
       ELSE LET wlines == Wrap(line, get_width(ind))
            IN  /\ Len(lines) + Len(wlines) <= MaxLines
                /\ lines' = lines \o
                       [j \in 1..Len(wlines) |-> StrEntry(indent + ind, wlines[j])]
                /\ exc' = exc
    /\ out' = NoOut
    /\ UNCHANGED <<max_width, indent, layout, rows, finished, widths, has_widths, scopes>>

\* Formatter.append_raw(line, indent=ind)
AppendRaw(line, ind) ==
    /\ exc = "none"
    /\ Len(lines) < MaxLines
    /\ lines' = append_raw(lines, line, ind)
    /\ out' = NoOut
    /\ UNCHANGED <<max_width, indent, layout, rows, finished, widths, has_widths, scopes, exc>>

\* Formatter.new_paragraph()
NewParagraph ==
    /\ exc = "none"
    /\ Len(lines) < MaxLines
    /\ lines' = new_paragraph(lines)
    /\ out' = NoOut
    /\ UNCHANGED <<max_width, indent, layout, rows, finished, widths, has_widths, scopes, exc>>

\* Formatter.extend(iterable)
Extend(items) ==
    /\ exc = "none"
    /\ Len(lines) + Len(items) <= MaxLines
    /\ lines' = extend(lines, items)
    /\ out' = NoOut
    /\ UNCHANGED <<max_width, indent, layout, rows, finished, widths, has_widths, scopes, exc>>

\* with formatter.indent(amount): _FormatterIndent.__enter__
IndentEnter(amount) ==
    /\ exc = "none"
    /\ Len(scopes) < MaxDepth
    /\ indent' = indent + amount
    /\ scopes' = Append(scopes, [kind |-> "indent", amount |-> amount])
    /\ out' = NoOut
    /\ UNCHANGED <<max_width, lines, layout, rows, finished, widths, has_widths, exc>>

\* An __exit__ that takes back the default amount, not the one entered with.
IndentExitDefault ==
    /\ scopes # <<>>
    /\ scopes[Len(scopes)].kind = "indent"
    /\ indent' = indent - 2
    /\ scopes' = SubSeq(scopes, 1, Len(scopes) - 1)
    /\ out' = NoOut
    /\ UNCHANGED <<max_width, lines, layout, rows, finished, widths, has_widths, exc>>

\* _FormatterIndent.__exit__, at the end of the block or while an exception
\* leaves it.
IndentExit ==
    /\ scopes # <<>>
    /\ scopes[Len(scopes)].kind = "indent"
    /\ indent' = indent - scopes[Len(scopes)].amount
    /\ scopes' = SubSeq(scopes, 1, Len(scopes) - 1)
    /\ out' = NoOut
    /\ UNCHANGED <<max_width, lines, layout, rows, finished, widths, has_widths, exc>>

\* with columns: _FormatterColumns.__enter__
ColumnsEnter ==
    /\ exc = "none"
    /\ Len(scopes) < MaxDepth
    /\ \A j \in 1..Len(scopes) : scopes[j].kind # "columns"
    /\ scopes' = Append(scopes, [kind |-> "columns", amount |-> 0])
    /\ out' = NoOut
    /\ UNCHANGED <<max_width, lines, indent, layout, rows, finished, widths, has_widths, exc>>

\* An append that records the row before it looks at its length.
ColumnsAppendThenCheck(cells) ==
    /\ exc = "none"
    /\ Len(lines) < MaxLines
    /\ rows' = Append(rows, cells)
    /\ lines' = Append(lines, RowEntry(indent, Len(rows) + 1))
    /\ exc' = IF Len(cells) # num THEN "ValueError" ELSE exc
    /\ out' = NoOut
    /\ UNCHANGED <<max_width, indent, layout, finished, widths, has_widths, scopes>>

\* _FormatterColumns.append(*cells)
ColumnsAppend(cells) ==
    /\ exc = "none"
    /\ IF Len(cells) # num
       THEN /\ exc' = "ValueError"
            /\ UNCHANGED <<rows, lines>>
       ELSE /\ Len(lines) < MaxLines
            /\ rows' = Append(rows, cells)
            /\ lines' = Append(lines, RowEntry(indent, Len(rows) + 1))
            /\ exc' = exc
    /\ out' = NoOut
    /\ UNCHANGED <<max_width, indent, layout, finished, widths, has_widths, scopes>>

\* _FormatterColumns.__exit__, at the end of the block or while an exception
\* leaves it: finished is set before the widths are computed, and a TypeError
\* of compute_widths leaves widths as it was and becomes the exception.
ColumnsExit ==
    /\ scopes # <<>>
    /\ scopes[Len(scopes)].kind = "columns"
    /\ finished' = TRUE
    /\ IF compute_widths_raises(max_width, num, spacing, wrap,
                                min_widths, max_widths, rows)
       THEN /\ exc' = "TypeError"
            /\ UNCHANGED <<widths, has_widths>>
       ELSE /\ widths' = compute_widths(max_width, num, spacing, wrap,
                                        min_widths, max_widths, rows)
            /\ has_widths' = TRUE
            /\ exc' = exc
    /\ scopes' = SubSeq(scopes, 1, Len(scopes) - 1)
    /\ out' = NoOut
    /\ UNCHANGED <<max_width, lines, indent, layout, rows>>

\* A __str__ that pops the trailing blank line off the buffer itself.
RenderPopsBlank ==
    /\ exc = "none"
    /\ out' = Str
    /\ exc' = Str.err
    /\ lines' = StrLines(lines)
    /\ UNCHANGED <<max_width, indent, layout, rows, finished, widths, has_widths, scopes>>

\* str(formatter): Formatter.__str__
Render ==
    /\ exc = "none"
    /\ out' = Str
    /\ exc' = Str.err
    /\ UNCHANGED <<max_width, lines, indent, layout, rows, finished, widths, has_widths, scopes>>

\* The caller's except clause ends the propagation.
Catch ==
    /\ exc # "none"
    /\ exc' = "none"
    /\ UNCHANGED <<max_width, lines, indent, layout, rows, finished, widths, has_widths,
                   scopes, out>>

Next ==
    \/ \E line \in Texts, ind \in ExtraIndents : FormatterAppend(line, ind)
    \/ \E line \in RawLines, ind \in ExtraIndents : AppendRaw(line, ind)
    \/ NewParagraph
    \/ \E items \in Sources : Extend(items)
    \/ \E amount \in Amounts : IndentEnter(amount)
    \/ IndentExit
    \/ ColumnsEnter
    \/ \E cells \in CellTuples : ColumnsAppend(cells)
    \/ ColumnsExit
    \/ Render
    \/ Catch

Spec == Init /\ [][Next]_vars

-----------------------------------------------------------------------------
(* Indentation scopes around appends: more amounts, the text operations only *)

ScopeAmounts == {1, 2, 3}
ScopeIndents == {0, 1}

NextIndent ==
    \/ \E line \in Texts, ind \in ScopeIndents : FormatterAppend(line, ind)
    \/ \E line \in RawLines, ind \in ScopeIndents : AppendRaw(line, ind)
    \/ \E amount \in ScopeAmounts : IndentEnter(amount)
    \/ IndentExit
    \/ Catch

IndentSpec == Init /\ [][NextIndent]_vars

-----------------------------------------------------------------------------
(* Width allocation: layouts of every policy, filled inside their with-block *)

MaxTermWidth == 5    \* Formatter(max_width) ranges over 0..MaxTermWidth

A1 == <<"a">>
A3 == <<"a", "a", "a">>
MinPolicies == {None, PyInt(0), PyInt(2), PyFloat(1, 1)}
MaxPolicies == {None, PyInt(2), PyFloat(1, 2)}
WidthConfigs ==
    { Config(n, Spaces(sp), <<>>, wr, mins, maxs) :
        n \in {2}, sp \in {0, 1}, wr \in [1..2 -> BOOLEAN],
        mins \in [1..2 -> MinPolicies], maxs \in [1..2 -> MaxPolicies] }
    \cup
    { Config(n, Spaces(1), <<>>, wr, mins, maxs) :
        n \in {1}, wr \in [1..1 -> BOOLEAN],
        mins \in [1..1 -> MinPolicies], maxs \in [1..1 -> MaxPolicies] }
WidthCells == {A1, A3}

InitWidth == \E mw \in 0..MaxTermWidth, c \in WidthConfigs : Construct(mw, c)

NextWidth ==
    \/ ~finished /\ ColumnsEnter
    \/ \E cells \in [1..num -> WidthCells] :
           scopes # <<>> /\ ColumnsAppend(cells)
    \/ ColumnsExit

WidthSpec == InitWidth /\ [][NextWidth]_vars

-----------------------------------------------------------------------------
(* Row rendering: closed layouts whose first row is written in each        *)
(* column's own letters; a second row, of z's, only weighs on the widths   *)

\* A template over the letters 1 and 2 and the blank 0, in column i's letters.
Letters == << <<"a", "b">>, <<"c", "d">>, <<"e", "f">> >>
InColumn(i, t) ==
    [j \in 1..Len(t) |-> IF t[j] = 0 THEN " " ELSE Letters[i][t[j]]]
Templates ==
    { <<1, 2>>, <<1, 2, 0, 2, 1>>, <<1, 2, 2, 1, 2, 1>>, <<1, 2, 0, 1, 2, 1, 2>> }
RenderRows(n) == { [i \in 1..n |-> InColumn(i, t[i])] : t \in [1..n -> Templates] }

RenderConfigs ==
    { Config(n, Spaces(sp), al, wr, <<>>, maxs) :
        n \in {3}, sp \in {0, 1}, al \in {<<>>}, wr \in [1..3 -> BOOLEAN],
        maxs \in [1..3 -> {None, PyInt(3)}] }
    \cup
    { Config(n, Spaces(sp), al, wr, <<>>, maxs) :
        n \in {2}, sp \in {1, 3}, al \in {<<>>, <<">", "^">>},
        wr \in [1..2 -> BOOLEAN], maxs \in [1..2 -> {None, PyInt(3), PyFloat(1, 2)}] }
    \cup
    { Config(n, Spaces(1), <<>>, wr, <<>>, maxs) :
        n \in {1}, wr \in [1..1 -> BOOLEAN], maxs \in [1..1 -> {None, PyInt(3)}] }
RenderWidths == {4, 6, 12}

\* Minimums of every kind, cells that may be empty or long, and a second
\* row of z's, for the three-column layouts.
LongTemplates == { <<>>, <<1, 2>>, <<1, 2, 2, 1, 2, 1, 2, 2>> }
ZRows == { <<>>, << <<<<"z">>, <<"z", "z">>, <<"z", "z">>>> >> }
MinTuples ==
    { <<PyInt(5), PyInt(0), PyInt(2)>>, <<PyInt(0), PyInt(0), PyInt(0)>>,
      <<PyInt(2), PyInt(0), PyInt(2)>>, <<PyInt(2), None, PyInt(2)>> }
WrapTuples == { <<FALSE, FALSE, TRUE>>, <<FALSE, FALSE, FALSE>>, <<FALSE, TRUE, TRUE>> }

\* The state after `with f.indent(ind): with f.columns(...) as c:
\* c.append(*row) ...` on a Formatter(max_width=mw), any TypeError of the
\* closing caught.
Closed(mw, c, rs, ind) ==
    LET st == Stored(c)
        computed == ComputeWidths(mw, st.num, st.spacing, st.wrap,
                                  st.min_widths, st.max_widths, rs)
    IN  /\ max_width = mw
        /\ indent = 0
        /\ num = st.num
        /\ spacing = st.spacing
        /\ align = st.align
        /\ wrap = st.wrap
        /\ min_widths = st.min_widths
        /\ max_widths = st.max_widths
        /\ rows = rs
        /\ lines = [r \in 1..Len(rs) |-> RowEntry(ind, r)]
        /\ finished = TRUE
        /\ has_widths = ~computed.raises
        /\ widths = IF computed.raises THEN <<>> ELSE computed.ws
        /\ scopes = <<>>
        /\ exc = "none"
        /\ out = NoOut

\* One-row layouts with the default minimums at the left margin, and
\* three-column layouts of one or two rows, inside an indent scope or not.
InitRender ==
    \/ \E mw \in RenderWidths, c \in RenderConfigs :
           \E row \in RenderRows(c.num) : Closed(mw, c, <<row>>, 0)
    \/ \E mw \in {4, 7}, wr \in WrapTuples, mins \in MinTuples,
          t \in [1..3 -> LongTemplates], zs \in ZRows, ind \in {0, 2} :
           Closed(mw, Config(3, Spaces(1), <<>>, wr, mins, <<None, None, None>>),
                  <<[i \in 1..3 |-> InColumn(i, t[i])]>> \o zs, ind)

NextRender == Render \/ Catch

RenderSpec == InitRender /\ [][NextRender]_vars

-----------------------------------------------------------------------------
(* What the claims speak of, stated from the layout's fields alone *)

\* The width left once the separators are taken.
Budget == max_width - Len(spacing) * (num - 1)

\* A policy resolved against the budget: a fraction f becomes int(f * budget).
Resolved(p) == IF p.k = "float" THEN Trunc(p.n * Budget, p.d) ELSE p.n

\* The widths of every column were computed (the layout held a row).
Allocated == finished /\ has_widths /\ Len(widths) = num

\* capacity_i lowered to the resolved maxWidth[i] when that is set.
CapOf(i) ==
    LET capacity == Budget
                    - Sum([j \in 1..(i - 1) |-> widths[j]])
                    - Sum([j \in 1..(num - i) |-> Resolved(min_widths[i + j])])
    IN  IF max_widths[i].k # "none" /\ Resolved(max_widths[i]) < capacity
        THEN Resolved(max_widths[i]) ELSE capacity

\* The cell lengths observed in column i.
Observed(i) == { Len(rows[r][i]) : r \in 1..Len(rows) }

Largest(S) == CHOOSE x \in S : \A y \in S : y <= x

\* v clamped low, then high.
Clamp(lo, v, hi) ==
    LET raised == IF v < lo THEN lo ELSE v
    IN  IF raised > hi THEN hi ELSE raised

-----------------------------------------------------------------------------
(* C1: for every closed layout, whatever its columns, separator, wrap      *)
(* flags, width policies, rows and the Formatter's maxWidth, the widths    *)
(* and the separators between them fit in maxWidth:                        *)
(* sum(widths) + len(separator) * (numColumns - 1) <= maxWidth.            *)
(* Stated for the layouts that held a row, whose widths are all computed.  *)
C1_WidthsFitBudget ==
    Allocated => Sum(widths) + Len(spacing) * (num - 1) <= max_width

(* C9: a non-wrapping column of a closed layout with a row gets the        *)
(* largest observed cell length that does not exceed its cap (minWidth[i]  *)
(* when every length exceeds it), bounded by minWidth[i] and the cap; in   *)
(* particular a cell exactly as long as the cap is kept and the width is   *)
(* that length.                                                            *)
C9_NonWrapWidth ==
    Allocated =>
        \A i \in 1..num :
            ~wrap[i] =>
                LET lo == Resolved(min_widths[i])
                    cap == CapOf(i)
                    fit == { l \in Observed(i) : l <= cap }
                    v == IF fit = {} THEN lo ELSE Largest(fit)
                IN  /\ IF min_widths[i].k = "none"
                       THEN fit # {} /\ widths[i] = Largest(fit)
                       ELSE lo <= cap => widths[i] = Clamp(lo, v, cap)
                    /\ cap \in Observed(i) => widths[i] = cap

(* C2: in every closed layout each column's width is at least its resolved *)
(* minWidth (when one is set) and, when maxWidth is set, at most its       *)
(* resolved maxWidth.                                                      *)
C2_WidthWithinPolicies ==
    Allocated =>
        \A i \in 1..num :
            /\ min_widths[i].k # "none" => Resolved(min_widths[i]) <= widths[i]
            /\ max_widths[i].k # "none" => widths[i] <= Resolved(max_widths[i])

-----------------------------------------------------------------------------
\* No two consecutive lines of a buffer are empty strings.
NoTwoBlanks(ls) ==
    \A j \in 1..(Len(ls) - 1) : ~(Falsy(ls[j]) /\ Falsy(ls[j + 1]))

\* The layout's own state and the Formatter's, without what a call returns.
stored == <<lines, indent, rows, widths, has_widths, finished, layout, max_width>>

(* C3: str(formatter) changes nothing the Formatter or its layout stores   *)
(* (lines, indent level, rows, widths), and a second call right after the  *)
(* first returns the same result.                                          *)
C3_RenderIdempotent ==
    [][out' # NoOut =>
          /\ UNCHANGED stored
          /\ out # NoOut => out' = out]_vars

\* A closed layout with a row was rendered to text, behind a plain line,
\* with a trailing blank line in the buffer.
C3_Witness ==
    /\ out.err = "none"
    /\ out.text # <<>>
    /\ finished
    /\ Len(lines) = MaxLines
    /\ lines[1].isRow
    /\ Falsy(lines[Len(lines)])

(* C4: the indent level always equals the sum of the amounts of the scopes *)
(* still open, so each exit takes back what its enter added and, once all  *)
(* scopes are left, the level is what it was before the first enter (0),   *)
(* also while an exception raised inside is leaving them.                  *)
RECURSIVE OpenAmounts(_)
OpenAmounts(sc) ==
    IF sc = <<>> THEN 0
    ELSE sc[Len(sc)].amount + OpenAmounts(SubSeq(sc, 1, Len(sc) - 1))

C4_IndentRestored == indent = OpenAmounts(scopes)

\* An append made under two nested scopes (indent 5 needs both) is in the
\* buffer, an append raised, and the exception has left every scope.
C4_Witness ==
    /\ exc = "ValueError"
    /\ scopes = <<>>
    /\ indent = 0
    /\ \E j \in 1..Len(lines) : lines[j].indent >= 5

(* C5, as claimed: the buffer never holds two consecutive blank lines.     *)
C5_NoTwoBlankLines == NoTwoBlanks(lines)

(* C5, amended: append (wrapped text), new_paragraph, a column-row append, *)
(* append_raw of a non-empty line and extend of an iterable that has no    *)
(* two consecutive empty items never make two consecutive blank lines in a *)
(* buffer that had none; the buffer starts with none.                      *)
NoTwoEmptyItems(items) ==
    \A j \in 1..(Len(items) - 1) :
        ~(items[j].line = <<>> /\ items[j + 1].line = <<>>)

C5_CollapsingStep ==
    \/ \E line \in Texts, ind \in ExtraIndents : FormatterAppend(line, ind)
    \/ NewParagraph
    \/ \E cells \in CellTuples : ColumnsAppend(cells)
    \/ \E line \in RawLines \ {<<>>}, ind \in ExtraIndents : AppendRaw(line, ind)
    \/ \E items \in Sources : NoTwoEmptyItems(items) /\ Extend(items)

C5_BlanksOnlyFromRawLines ==
    /\ NoTwoBlanks(lines)
    /\ [][(NoTwoBlanks(lines) /\ C5_CollapsingStep) => NoTwoBlanks(lines')]_vars

\* Inside an indent scope the buffer ends with a paragraph's blank line
\* (indent 0, which append_raw would not give it there).
C5_Witness ==
    /\ indent # 0
    /\ Len(lines) = 2
    /\ ~Falsy(lines[1])
    /\ lines[2] = StrEntry(0, <<>>)

(* C6: a layout goes from open to closed and never back, and once closed   *)
(* every append of a row raises and records nothing, in rows or in lines.  *)
C6_ClosedRejectsAppend ==
    [][finished =>
          /\ finished'
          /\ \A cells \in CellTuples :
                ColumnsAppend(cells) =>
                    /\ exc' # "none"
                    /\ rows' = rows
                    /\ lines' = lines]_vars

(* C7: an append of a row whose length is not numColumns raises at once    *)
(* and leaves rows and lines as they were; a row of numColumns cells is    *)
(* added once to both, at their ends.  So every row has numColumns cells   *)
(* and the rows of the buffer are the layout's rows, in order.             *)
RowRefs(ls) == SelectSeq(ls, LAMBDA e : e.isRow)

C7_ShapeChecked ==
    /\ [](/\ \A r \in 1..Len(rows) : Len(rows[r]) = num
          /\ Len(RowRefs(lines)) = Len(rows)
          /\ \A r \in 1..Len(rows) : RowRefs(lines)[r].row = r)
    /\ [][\A cells \in CellTuples :
            ColumnsAppend(cells) =>
                IF Len(cells) # num
                THEN /\ exc' = "ValueError"
                     /\ rows' = rows
                     /\ lines' = lines
                ELSE /\ exc' = "none"
                     /\ rows' = Append(rows, cells)
                     /\ Len(lines') = Len(lines) + 1
                     /\ SubSeq(lines', 1, Len(lines)) = lines
                     /\ lines'[Len(lines')].isRow
                     /\ rows'[lines'[Len(lines')].row] = cells]_vars

\* Two different rows were recorded, in order, and an append is raising.
C7_Witness ==
    /\ Len(rows) = 2
    /\ rows[1] # rows[2]
    /\ lines = <<RowEntry(0, 1), RowEntry(0, 2)>>
    /\ exc = "ValueError"
    /\ scopes = <<>>

\* The buffer extend(items) leaves when every item is stored at `bias` plus
\* its own indent, a blank first item being a paragraph break.
ExtendedWith(items, bias) ==
    IF items = <<>> THEN lines' = lines
    ELSE LET first == items[1]
             base == IF first.line = <<>>
                     THEN (IF lines # <<>> /\ ~Falsy(lines[Len(lines)])
                           THEN Len(lines) + 1 ELSE Len(lines))
                     ELSE Len(lines)
         IN  /\ Len(lines') = base + (IF first.line = <<>> THEN Len(items) - 1
                                      ELSE Len(items))
             /\ SubSeq(lines', 1, Len(lines)) = lines
             /\ base > Len(lines) => lines'[base] = StrEntry(0, <<>>)
             /\ \A j \in 1..Len(items) :
                   (j > 1 \/ first.line # <<>>) =>
                       LET e == lines'[base + j
                                       - (IF first.line = <<>> THEN 1 ELSE 0)]
                       IN  /\ e.text = items[j].line
                           /\ ~e.isRow
                           /\ items[j].line # <<>> =>
                                  e.indent = bias + items[j].indent

(* C8, as claimed: extend stores each non-blank item at the item's own     *)
(* indent, whatever the receiving Formatter's indent level; a blank first  *)
(* item is a paragraph break.                                              *)
C8_ExtendKeepsItemIndent ==
    [][\A items \in Sources : Extend(items) => ExtendedWith(items, 0)]_vars

(* C8, amended: extend stores each non-blank item at the receiving         *)
(* Formatter's current indent level plus the item's own indent; a blank    *)
(* first item is a paragraph break.                                        *)
C8_ExtendAddsIndentLevel ==
    [][\A items \in Sources : Extend(items) => ExtendedWith(items, indent)]_vars

\* Inside a scope of 2, a nested Formatter's (2, "ab"), (0, "") are in the
\* buffer at 4 and 2.
C8_Witness ==
    /\ indent = 2
    /\ Len(scopes) = 1
    /\ lines = <<StrEntry(4, Ab), StrEntry(2, <<>>)>>

-----------------------------------------------------------------------------
(* The first row of a rendered layout, read back from the text.  Column    *)
(* i's cells are written in column i's own letters, so the letters of a    *)
(* physical line tell which columns it holds.                              *)

\* text.split("\n")
RECURSIVE SplitLines(_, _)
SplitLines(text, cur) ==
    IF text = <<>> THEN <<cur>>
    ELSE IF Head(text) = "\n" THEN <<cur>> \o SplitLines(Tail(text), <<>>)
    ELSE SplitLines(Tail(text), Append(cur, Head(text)))

\* The physical lines of the output, as the layout gave them to the
\* Formatter: without the indent the row was appended at.
Phys ==
    LET printed == SplitLines(out.text, <<>>)
    IN  [k \in 1..Len(printed) |->
            SubSeq(printed[k], lines[1].indent + 1, Len(printed[k]))]

LettersOf(i, s) == SelectSeq(s, LAMBDA c : c \in {Letters[i][1], Letters[i][2]})

\* The physical lines that hold something of column i, in order.
LinesWith(i) ==
    LET phys == Phys
    IN  SelectSeq([k \in 1..Len(phys) |-> k],
                  LAMBDA k : LettersOf(i, phys[k]) # <<>>)

\* The wrapped sub-lines of the row's cell i, and each as padded to its width.
SubWidth(i) == CellWidth(i, rows[1][i], widths, wrap, spacing, num)
SubLines(i) == Wrap(rows[1][i], SubWidth(i))
Padded(i, p) == Format(SubLines(i)[p], align[i], SubWidth(i))

\* line[off : off + len(x)] == x, the line's stripped blanks put back.
HoldsAt(line, off, x) ==
    LET full == line \o Spaces(off + Len(x) - Len(line))
    IN  SubSeq(full, off + 1, off + Len(x)) = x

Contains(line, x) == \E off \in 0..(Len(line) - Len(x)) : HoldsAt(line, off, x)

EndsWith(line, x) ==
    Len(x) <= Len(line) /\ HoldsAt(line, Len(line) - Len(x), x)

\* Every sub-line of every cell is in the output once, in order, whole but
\* for trailing blanks.
AllSubLinesShown ==
    \A i \in 1..num :
        /\ Len(LinesWith(i)) = Len(SubLines(i))
        /\ \A p \in 1..Len(SubLines(i)) :
              LET line == Phys[LinesWith(i)[p]]
              IN  /\ LettersOf(i, line) = LettersOf(i, SubLines(i)[p])
                  /\ Contains(line, RStrip(SubLines(i)[p]))

\* Sub-line p of column i overflows its column.
Overflows(i, p) == p <= Len(SubLines(i)) /\ Len(Padded(i, p)) > widths[i]

\* What column i puts on the line of position p is longer than its width:
\* an overflowing sub-line, or, where the cell has no sub-line p, the blanks
\* that stand for it, which are none, and still too many, for a negative
\* width.
BreaksLine(i, p) ==
    IF p <= Len(SubLines(i)) THEN Overflows(i, p) ELSE widths[i] < 0

\* An overflowing sub-line ends its physical line.
OverflowEndsLine ==
    \A i \in 1..num : \A p \in 1..Len(SubLines(i)) :
        Overflows(i, p) =>
            LET line == Phys[LinesWith(i)[p]]
            IN  /\ EndsWith(line, RStrip(SubLines(i)[p]))
                /\ \A j \in (i + 1)..num : LettersOf(j, line) = <<>>

\* Column j's sub-line p is `down` physical lines below column i's.
LinesBelow(i, p, j, down) ==
    p <= Len(SubLines(j)) => LinesWith(j)[p] = LinesWith(i)[p] + down

\* On the line after column i's sub-line p, column i+1's sub-line p, padded
\* to its width as its alignment says, starts at `off`, behind blanks only.
NextColumnAt(i, p, off) ==
    p <= Len(SubLines(i + 1)) =>
        /\ LinesBelow(i, p, i + 1, 1)
        /\ LET line == Phys[LinesWith(i + 1)[p]]
           IN  /\ HoldsAt(line, 0, Spaces(off))
               /\ HoldsAt(line, off, RStrip(Padded(i + 1, p)))

\* The row was rendered without an exception.
Rendered == out.err = "none"

(* C10, as claimed: every wrapped sub-line of every cell is in the output  *)
(* exactly once, in order; a sub-line longer than its column's width is    *)
(* the last content of its physical line, and the content of all later     *)
(* columns for that position is on the next physical line, behind blanks,  *)
(* column i+1 starting at sum(widths[:i+1]) + len(separator) * (i+1).      *)
C10_OverflowPushesColumnsDown ==
    Rendered =>
        /\ AllSubLinesShown
        /\ OverflowEndsLine
        /\ \A i \in 1..(num - 1) : \A p \in 1..Len(SubLines(i)) :
              Overflows(i, p) =>
                  /\ NextColumnAt(i, p, Sum(SubSeq(widths, 1, i)) + Len(spacing) * i)
                  /\ \A j \in (i + 1)..num : LinesBelow(i, p, j, 1)

(* C10, amended: every wrapped sub-line of every cell is in the output     *)
(* exactly once, in order (trailing blanks apart); a sub-line that, padded *)
(* to the width it was wrapped at, is longer than its column's width is    *)
(* the last content of its physical line; the content of column i+1 for    *)
(* that position is on the next physical line, behind blanks, its padded   *)
(* sub-line starting at                                                    *)
(* max(0, sum(widths[:i+1]) + len(separator) * i) + len(separator);        *)
(* the content of a later column j is one line further down for every      *)
(* column between i and j that breaks the line in turn, by an overflowing  *)
(* sub-line or by having no sub-line there and a negative width.           *)
C10_OverflowPushesNextColumnDown ==
    Rendered =>
        /\ AllSubLinesShown
        /\ OverflowEndsLine
        /\ \A i \in 1..(num - 1) : \A p \in 1..Len(SubLines(i)) :
              Overflows(i, p) =>
                  LET before == Sum(SubSeq(widths, 1, i)) + Len(spacing) * (i - 1)
                  IN  /\ NextColumnAt(i, p, (IF before < 0 THEN 0 ELSE before)
                                            + Len(spacing))
                      /\ \A j \in (i + 1)..num :
                            LinesBelow(i, p, j,
                                1 + Cardinality({m \in (i + 1)..(j - 1) :
                                                    BreaksLine(m, p)}))

\* A three-column row was rendered whose first cell overflows and whose
\* second and third follow on the next line.
C10_Witness ==
    /\ Rendered
    /\ num = 3
    /\ Overflows(1, 1)
    /\ ~Overflows(2, 1)
    /\ LinesWith(1)[1] = 1
    /\ LinesWith(2)[1] = 2
    /\ LinesWith(3)[1] = 2

====
